---- MODULE Spec2Model ----
(***************************************************************************)
(* Account store, session flag and upload history of the Data Analyzer     *)
(* dashboard, in its two revisions:                                         *)
(*   "json"   - src/app.py (users.json / settings.json on disk)             *)
(*   "sheets" - src/app_final_google_sheets_secrets.py (Google Sheets)      *)
(* Strings are sequences of one-character strings, so that str.strip() and  *)
(* Python truthiness are computed rather than assumed.                      *)
(***************************************************************************)
EXTENDS Integers, Sequences, FiniteSets, TLC

VARIABLES
    revision,       \* which revision of the dashboard is deployed
    users_file,     \* app.py: content of users.json (username -> hash)
    settings_file,  \* app.py: settings.json "allow_signup"
    auth_sheet,     \* sheets: data rows of worksheet "users"
    history_sheet,  \* sheets: data rows of worksheet "upload_history"
    users_cache,    \* sheets: st.cache_data entry of get_users (<<>> = none)
    logged_in,      \* st.session_state.logged_in, per session
    username,       \* st.session_state.username, per session
    uploaded_file,  \* sheets: the file held by st.file_uploader, per session
    users,          \* app.py: the script run's module global `users`, per session
    pc,             \* position of a session's script run (interleaved runs)
    store_at_check, \* history: rows of the store for the signup name at find_user time
    deleted,        \* history: usernames some delete action has removed
    overwritten,    \* history: usernames whose record a delete's save dropped unnamed
    fetch_failed,   \* history: get_users has caught an APIError
    last            \* the session's last handler: what was submitted and what it showed

vars == <<revision, users_file, settings_file, auth_sheet, history_sheet,
          users_cache, logged_in, username, uploaded_file, users, pc,
          store_at_check, deleted, overwritten,
          fetch_failed, last>>

-----------------------------------------------------------------------------
(* Bounds *)

MaxRows == 2
MaxHistory == 2

Sessions == {1, 2}
\* spec.md section 3: exactly one session is live per running process instance
LiveSession == {1}

-----------------------------------------------------------------------------
(* Strings *)

IsSpace(c) == c = " "

RECURSIVE LStrip(_)
LStrip(s) == IF s = <<>> THEN s
             ELSE IF IsSpace(Head(s)) THEN LStrip(Tail(s)) ELSE s

RECURSIVE RStrip(_)
RStrip(s) == IF s = <<>> THEN s
             ELSE IF IsSpace(s[Len(s)]) THEN RStrip(SubSeq(s, 1, Len(s) - 1)) ELSE s

\* str.strip()
Strip(s) == RStrip(LStrip(s))

\* Python truthiness of a str
Truthy(s) == s # <<>>

ADMIN == <<"a", "d", "m", "i", "n">>
ADMIN_USERNAME == <<"m", "a", "n", "i", "d", "e", "e", "p">>

AdminOf(rev) == IF rev = "json" THEN ADMIN ELSE ADMIN_USERNAME

\* what a user can type into the username / password text inputs
UsernameInputs(rev) == {<<>>, <<" ">>, <<"a">>, AdminOf(rev)}
PasswordInputs == {<<>>, <<" ">>, <<"p">>}

\* the salts bcrypt.gensalt() can return
Salts == {1, 2}

\* bcrypt.hashpw(password.encode(), salt).decode()
HashPw(password, salt) == [pw |-> password, salt |-> salt]

\* bcrypt.checkpw(password.encode(), hashed.encode())
CheckPw(password, hashed) == hashed.pw = password

-----------------------------------------------------------------------------
(* Sheets revision: auth functions *)

Row(u, h) == [username |-> u, password |-> h]

\* append_row on a sheet that refused a second row for a username
append_row_unique(sheet, row) ==
    IF \E i \in 1..Len(sheet) : sheet[i].username = row.username THEN sheet
    ELSE Append(sheet, row)

\* auth_sheet.append_row([...]) / history_sheet.append_row([...])
append_row(sheet, row) == Append(sheet, row)

\* auth_sheet.get_all_records()
get_all_records(sheet) == sheet

\* @st.cache_data get_users(): a cached value is returned without reading the
\* sheet; otherwise the sheet is read, an APIError becomes [] and whatever is
\* returned is cached. Any other exception propagates (raised).
ReadOutcomes == {"ok", "api_error", "exception"}

get_users(cache, sheet, read) ==
    IF cache # <<>> THEN [value |-> cache[1], cache |-> cache, raised |-> FALSE]
    ELSE IF read = "ok"
         THEN [value |-> get_all_records(sheet),
               cache |-> <<get_all_records(sheet)>>, raised |-> FALSE]
    ELSE IF read = "api_error"
         THEN [value |-> <<>>, cache |-> << <<>> >>, raised |-> FALSE]
    ELSE [value |-> <<>>, cache |-> cache, raised |-> TRUE]

\* find_user over the list get_users returned: <<>> is None, <<row>> the match
find_user(userlist, name) ==
    LET hits == {i \in 1..Len(userlist) : userlist[i].username = name}
    IN IF hits = {} THEN <<>>
       ELSE <<userlist[CHOOSE i \in hits : \A j \in hits : i <= j]>>

\* authenticate without the bcrypt.checkpw conjunct
authenticate_any_password(userlist, name, password) ==
    find_user(userlist, name) # <<>>

\* authenticate over the list get_users returned
authenticate(userlist, name, password) ==
    LET user == find_user(userlist, name)
    IN user # <<>> /\ CheckPw(password, user[1].password)

\* add_user: the sheet afterwards and the value returned
add_user(sheet, name, password, salt, append_ok) ==
    IF ~Truthy(name) \/ ~Truthy(password)
    THEN [sheet |-> sheet, ok |-> FALSE, msg |-> "empty"]
    ELSE IF append_ok
         THEN [sheet |-> append_row(sheet, Row(name, HashPw(password, salt))),
               ok |-> TRUE, msg |-> "created"]
    ELSE [sheet |-> sheet, ok |-> FALSE, msg |-> "api_error"]

\* save_upload_history: the history sheet afterwards
save_upload_history(sheet, name, filename, append_ok) ==
    IF append_ok THEN append_row(sheet, [username |-> name, filename |-> filename])
    ELSE sheet

\* rows of a sheet that carry username `name`
RowsOf(sheet, name) == {i \in 1..Len(sheet) : sheet[i].username = name}

-----------------------------------------------------------------------------
(* Sheets revision: the upload part of main() *)

NoFile == "none"
CsvFiles == {"data.csv", "bad.csv"}

\* pd.read_csv(uploaded_file) returns a frame (otherwise ParserError is caught)
ParsesAsCsv(f) == f = "data.csv"

\* main(), lines 254-313, of a logged-in run: the history sheet afterwards
\* (the timestamp column is not read by any handler and is left out)
main_upload(sheet, name, file, append_ok) ==
    IF file # NoFile /\ ParsesAsCsv(file)
    THEN save_upload_history(sheet, name, file, append_ok)
    ELSE sheet

-----------------------------------------------------------------------------
(* app.py: persistent user storage *)

EmptyDict == [u \in {} |-> HashPw(<<>>, 1)]

\* load_users(): json.load of users.json, {} when the file is absent
load_users(file) == file

\* save_users(users): the file afterwards
save_users(dict) == dict

\* verify_user over the run's `users`
verify_user(dict, name, password) ==
    name \in DOMAIN dict /\ CheckPw(password, dict[name])

\* the "Create Account" branch: the run's `users` afterwards, whether
\* save_users is called, and the message shown
create_account(dict, new_user, new_pass, salt) ==
    IF new_user \in DOMAIN dict
    THEN [users |-> dict, save |-> FALSE, msg |-> "exists"]
    ELSE IF Strip(new_user) = <<>> \/ Strip(new_pass) = <<>>
         THEN [users |-> dict, save |-> FALSE, msg |-> "empty"]
    ELSE [users |-> dict @@ (new_user :> HashPw(new_pass, salt)),
          save |-> TRUE, msg |-> "created"]

\* user_list without the `if u != "admin"` filter
user_list_unfiltered(dict) == DOMAIN dict

\* user_list = [u for u in users if u != "admin"]
user_list(dict) == {u \in DOMAIN dict : u # ADMIN}

\* del users[user_to_delete]
del_user(dict, name) == [u \in DOMAIN dict \ {name} |-> dict[u]]

\* what st.sidebar.selectbox("Select User", user_list) can return (<<>> stands
\* for None, the value of a selectbox without options)
Selectable(dict) == IF user_list(dict) = {} THEN {<<>>} ELSE user_list(dict)

\* the "Delete Selected User" branch: the run's `users` afterwards and
\* whether save_users is called
delete_selected(dict, target) ==
    IF target \in DOMAIN dict
    THEN [users |-> del_user(dict, target), save |-> TRUE, msg |-> "deleted"]
    ELSE [users |-> dict, save |-> FALSE, msg |-> "none"]

-----------------------------------------------------------------------------
(* Outcome records *)

Outcome(op, name, pass, result) ==
    [op |-> op, user |-> name, pass |-> pass, result |-> result]

Show(s, op, name, pass, result) ==
    last' = [last EXCEPT ![s] = Outcome(op, name, pass, result)]

NoOutcome == Outcome("none", <<>>, <<>>, "none")

-----------------------------------------------------------------------------
Init ==
    /\ revision \in {"json", "sheets"}
    /\ users_file = EmptyDict
    /\ settings_file = TRUE
    /\ auth_sheet \in IF revision = "sheets"
                      THEN {<<>>, <<Row(ADMIN_USERNAME, HashPw(<<"p">>, 1))>>}
                      ELSE {<<>>}
    /\ history_sheet = <<>>
    /\ users_cache = <<>>
    /\ logged_in = [s \in Sessions |-> FALSE]
    /\ username = [s \in Sessions |-> <<>>]
    /\ uploaded_file = [s \in Sessions |-> NoFile]
    /\ users = [s \in Sessions |-> EmptyDict]
    /\ pc = [s \in Sessions |-> "idle"]
    /\ store_at_check = [s \in Sessions |-> 0]
    /\ deleted = {}
    /\ overwritten = {}
    /\ fetch_failed = FALSE
    /\ last = [s \in Sessions |-> NoOutcome]

JsonVars == <<users_file, settings_file, users, deleted, overwritten>>
SheetsVars == <<auth_sheet, history_sheet, users_cache, uploaded_file,
                store_at_check, fetch_failed>>

\* this call of get_users reads the sheet and catches an APIError
FetchFailed(read) == users_cache = <<>> /\ read = "api_error"

-----------------------------------------------------------------------------
(* Sheets revision: one step per button / widget interaction of a session *)

\* "Login" button, lines 231-237
SheetsLogin(s, u, p, read) ==
    /\ revision = "sheets" /\ pc[s] = "idle" /\ ~logged_in[s]
    /\ LET r == get_users(users_cache, auth_sheet, read)
       IN IF r.raised
          THEN /\ Show(s, "login", u, p, "exception")
               /\ UNCHANGED <<users_cache, fetch_failed, logged_in, username>>
          ELSE /\ users_cache' = r.cache
               /\ fetch_failed' = (fetch_failed \/ FetchFailed(read))
               /\ IF authenticate(r.value, u, p)
                  THEN /\ logged_in' = [logged_in EXCEPT ![s] = TRUE]
                       /\ username' = [username EXCEPT ![s] = u]
                       /\ Show(s, "login", u, p, "ok")
                  ELSE /\ Show(s, "login", u, p, "invalid")
                       /\ UNCHANGED <<logged_in, username>>
    /\ UNCHANGED <<revision, JsonVars, pc, auth_sheet, history_sheet,
                   uploaded_file, store_at_check>>

\* "Signup" button, line 242: find_user(new_username). A run that finds no
\* such user goes on to add_user (position "checked")
SignupCheck(s, u, p, read) ==
    /\ revision = "sheets" /\ pc[s] = "idle" /\ ~logged_in[s]
    /\ LET r == get_users(users_cache, auth_sheet, read)
       IN IF r.raised
          THEN /\ Show(s, "signup", u, p, "exception")
               /\ UNCHANGED <<users_cache, fetch_failed, store_at_check, pc>>
          ELSE /\ users_cache' = r.cache
               /\ fetch_failed' = (fetch_failed \/ FetchFailed(read))
               /\ store_at_check' =
                      [store_at_check EXCEPT ![s] = Cardinality(RowsOf(auth_sheet, u))]
               /\ IF find_user(r.value, u) # <<>>
                  THEN /\ Show(s, "signup", u, p, "exists")
                       /\ UNCHANGED pc
                  ELSE /\ Show(s, "signup", u, p, "checked")
                       /\ pc' = [pc EXCEPT ![s] = "checked"]
    /\ UNCHANGED <<revision, JsonVars, auth_sheet, history_sheet, uploaded_file,
                   logged_in, username>>

\* "Signup" button, lines 244-245: add_user(new_username, new_password)
SignupAdd(s, append_ok, salt) ==
    /\ revision = "sheets" /\ pc[s] = "checked"
    /\ LET a == add_user(auth_sheet, last[s].user, last[s].pass, salt, append_ok)
       IN /\ Len(a.sheet) <= MaxRows
          /\ auth_sheet' = a.sheet
          /\ Show(s, "signup", last[s].user, last[s].pass, a.msg)
    /\ pc' = [pc EXCEPT ![s] = "idle"]
    /\ UNCHANGED <<revision, JsonVars, history_sheet, users_cache, uploaded_file,
                   store_at_check, fetch_failed, logged_in, username>>

\* "Signup" button, lines 241-245, as one uninterrupted run (no other writer
\* comes between its find_user and its add_user, so store_at_check stays)
SheetsSignup(s, u, p, read, append_ok, salt) ==
    /\ revision = "sheets" /\ pc[s] = "idle" /\ ~logged_in[s]
    /\ LET r == get_users(users_cache, auth_sheet, read)
           a == add_user(auth_sheet, u, p, salt, append_ok)
       IN IF r.raised
          THEN /\ Show(s, "signup", u, p, "exception")
               /\ UNCHANGED <<users_cache, fetch_failed, auth_sheet>>
          ELSE /\ users_cache' = r.cache
               /\ fetch_failed' = (fetch_failed \/ FetchFailed(read))
               /\ IF find_user(r.value, u) # <<>>
                  THEN /\ Show(s, "signup", u, p, "exists")
                       /\ UNCHANGED auth_sheet
                  ELSE /\ Len(a.sheet) <= MaxRows
                       /\ auth_sheet' = a.sheet
                       /\ Show(s, "signup", u, p, a.msg)
    /\ UNCHANGED <<revision, JsonVars, pc, history_sheet, uploaded_file,
                   store_at_check, logged_in, username>>

\* "Logout" button, lines 250-252; the uploader is not rendered by the
\* logged-out run, so its file is dropped
SheetsLogout(s) ==
    /\ revision = "sheets" /\ pc[s] = "idle" /\ logged_in[s]
    /\ logged_in' = [logged_in EXCEPT ![s] = FALSE]
    /\ uploaded_file' = [uploaded_file EXCEPT ![s] = NoFile]
    /\ Show(s, "logout", <<>>, <<>>, "ok")
    /\ UNCHANGED <<revision, JsonVars, pc, auth_sheet, history_sheet,
                   users_cache, store_at_check, fetch_failed, username>>

\* a file is put into st.file_uploader: the run that follows, lines 254-313
SheetsUpload(s, f, append_ok) ==
    /\ revision = "sheets" /\ pc[s] = "idle" /\ logged_in[s]
    /\ f \in CsvFiles /\ uploaded_file[s] # f
    /\ uploaded_file' = [uploaded_file EXCEPT ![s] = f]
    /\ history_sheet' = main_upload(history_sheet, username[s], f, append_ok)
    /\ Len(history_sheet') <= MaxHistory
    /\ Show(s, "upload", <<>>, <<>>, IF ParsesAsCsv(f) THEN "shown" ELSE "invalid_csv")
    /\ UNCHANGED <<revision, JsonVars, pc, auth_sheet, users_cache,
                   store_at_check, fetch_failed, logged_in, username>>

\* any other widget of the logged-in page (filter column, search keyword,
\* chart multiselect, "Export to PPT") reruns main() with the file still held
SheetsRerun(s, append_ok) ==
    /\ revision = "sheets" /\ pc[s] = "idle" /\ logged_in[s]
    /\ uploaded_file[s] # NoFile
    /\ history_sheet' = main_upload(history_sheet, username[s], uploaded_file[s], append_ok)
    /\ Len(history_sheet') <= MaxHistory
    /\ Show(s, "rerun", <<>>, <<>>,
            IF ParsesAsCsv(uploaded_file[s]) THEN "shown" ELSE "invalid_csv")
    /\ UNCHANGED <<revision, JsonVars, pc, auth_sheet, users_cache,
                   store_at_check, fetch_failed, logged_in, username, uploaded_file>>

\* the file is removed from st.file_uploader
SheetsClearFile(s) ==
    /\ revision = "sheets" /\ pc[s] = "idle" /\ logged_in[s]
    /\ uploaded_file[s] # NoFile
    /\ uploaded_file' = [uploaded_file EXCEPT ![s] = NoFile]
    /\ Show(s, "clear", <<>>, <<>>, "ok")
    /\ UNCHANGED <<revision, JsonVars, pc, auth_sheet, history_sheet,
                   users_cache, store_at_check, fetch_failed, logged_in, username>>

-----------------------------------------------------------------------------
(* app.py: every script run starts with users = load_users() (line 46) and   *)
(* then takes the branch of the pressed button. The branches are written     *)
(* over the run's `users`; RunUsers says which dict that is.                 *)

\* line 46 of a new run
RunStart(s) ==
    /\ revision = "json" /\ pc[s] = "idle"
    /\ users' = [users EXCEPT ![s] = load_users(users_file)]
    /\ pc' = [pc EXCEPT ![s] = "running"]
    /\ UNCHANGED <<revision, SheetsVars, users_file, settings_file, deleted,
                   overwritten, logged_in, username, last>>

\* a branch that read users.json again when it runs
RunUsersReloaded(s) == load_users(users_file)

\* the module global `users` a branch reads: the dict loaded when its run began
RunUsers(s) == IF pc[s] = "running" THEN users[s] ELSE load_users(users_file)

\* "Login" button, lines 85-93
LoginBranch(s, u, p) ==
    /\ revision = "json" /\ ~logged_in[s]
    /\ IF verify_user(RunUsers(s), u, p)
       THEN /\ logged_in' = [logged_in EXCEPT ![s] = TRUE]
            /\ username' = [username EXCEPT ![s] = u]
            /\ Show(s, "login", u, p, "ok")
       ELSE /\ Show(s, "login", u, p, "invalid")
            /\ UNCHANGED <<logged_in, username>>
    /\ UNCHANGED <<revision, SheetsVars, users_file, settings_file, deleted, overwritten>>

\* "Create Account" button, lines 97-110 (rendered only while signup is allowed)
SignupBranch(s, u, p, salt) ==
    /\ revision = "json" /\ ~logged_in[s]
    /\ settings_file
    /\ LET r == create_account(RunUsers(s), u, p, salt)
       IN /\ users_file' = IF r.save THEN save_users(r.users) ELSE users_file
          /\ Show(s, "signup", u, p, r.msg)
    /\ UNCHANGED <<revision, SheetsVars, settings_file, deleted, overwritten, logged_in, username>>

\* "Logout" button, lines 119-122
LogoutBranch(s) ==
    /\ revision = "json" /\ logged_in[s]
    /\ logged_in' = [logged_in EXCEPT ![s] = FALSE]
    /\ username' = [username EXCEPT ![s] = <<>>]
    /\ Show(s, "logout", <<>>, <<>>, "ok")
    /\ UNCHANGED <<revision, SheetsVars, users_file, settings_file, deleted, overwritten>>

\* "Reset App" button, line 61: session_state.clear(), then lines 55-58 of the
\* run that follows
ResetBranch(s) ==
    /\ revision = "json"
    /\ logged_in' = [logged_in EXCEPT ![s] = FALSE]
    /\ username' = [username EXCEPT ![s] = <<>>]
    /\ Show(s, "reset", <<>>, <<>>, "ok")
    /\ UNCHANGED <<revision, SheetsVars, users_file, settings_file, deleted, overwritten>>

\* admin panel, "Allow User Signup" checkbox, lines 127-136
ToggleBranch(s) ==
    /\ revision = "json" /\ logged_in[s]
    /\ username[s] = ADMIN
    /\ settings_file' = ~settings_file
    /\ Show(s, "toggle", <<>>, <<>>, "updated")
    /\ UNCHANGED <<revision, SheetsVars, users_file, deleted, overwritten, logged_in, username>>

\* admin panel, "Delete Selected User" button, lines 127, 144-152
DeleteBranch(s, target) ==
    /\ revision = "json" /\ logged_in[s]
    /\ username[s] = ADMIN
    /\ target \in Selectable(RunUsers(s))
    /\ LET r == delete_selected(RunUsers(s), target)
       IN /\ users_file' = IF r.save THEN save_users(r.users) ELSE users_file
          /\ deleted' = IF r.save THEN deleted \cup {target} ELSE deleted
          /\ overwritten' = IF r.save
                            THEN overwritten \cup (DOMAIN users_file \ DOMAIN RunUsers(s))
                            ELSE overwritten
          /\ Show(s, "delete", target, <<>>, r.msg)
    /\ UNCHANGED <<revision, SheetsVars, settings_file, logged_in, username>>

\* a whole script run, uninterrupted
Whole(s) == UNCHANGED <<pc, users>>
AppLogin(s, u, p) == pc[s] = "idle" /\ LoginBranch(s, u, p) /\ Whole(s)
AppSignup(s, u, p, salt) == pc[s] = "idle" /\ SignupBranch(s, u, p, salt) /\ Whole(s)
AppLogout(s) == pc[s] = "idle" /\ LogoutBranch(s) /\ Whole(s)
AppReset(s) == pc[s] = "idle" /\ ResetBranch(s) /\ Whole(s)
AppToggleSignup(s) == pc[s] = "idle" /\ ToggleBranch(s) /\ Whole(s)
AppDelete(s, target) == pc[s] = "idle" /\ DeleteBranch(s, target) /\ Whole(s)

\* the branch of a run that began earlier (RunStart), other sessions' runs
\* having run in between; the run's globals are gone when it ends
Finish(s) ==
    /\ pc' = [pc EXCEPT ![s] = "idle"]
    /\ users' = [users EXCEPT ![s] = EmptyDict]
RunLogin(s, u, p) == pc[s] = "running" /\ LoginBranch(s, u, p) /\ Finish(s)
RunSignup(s, u, p, salt) == pc[s] = "running" /\ SignupBranch(s, u, p, salt) /\ Finish(s)
RunDelete(s, target) == pc[s] = "running" /\ DeleteBranch(s, target) /\ Finish(s)

-----------------------------------------------------------------------------
(* One live session, each script run atomic *)

\* how the sheet read of this step can end (a cached get_users reads nothing)
Reads == IF users_cache = <<>> THEN ReadOutcomes ELSE {"ok"}

SheetsNext(s) ==
    \/ \E u \in UsernameInputs(revision), p \in PasswordInputs, read \in Reads :
           SheetsLogin(s, u, p, read)
    \/ \E u \in UsernameInputs(revision), p \in PasswordInputs, read \in Reads,
          append_ok \in BOOLEAN, salt \in Salts :
           SheetsSignup(s, u, p, read, append_ok, salt)
    \/ SheetsLogout(s)
    \/ \E f \in CsvFiles, append_ok \in BOOLEAN : SheetsUpload(s, f, append_ok)
    \/ \E append_ok \in BOOLEAN : SheetsRerun(s, append_ok)
    \/ SheetsClearFile(s)

AppNext(s) ==
    \/ \E u \in UsernameInputs(revision), p \in PasswordInputs : AppLogin(s, u, p)
    \/ \E u \in UsernameInputs(revision), p \in PasswordInputs, salt \in Salts :
           AppSignup(s, u, p, salt)
    \/ AppLogout(s)
    \/ AppReset(s)
    \/ AppToggleSignup(s)
    \/ \E target \in UsernameInputs(revision) : AppDelete(s, target)

Next == \E s \in LiveSession : SheetsNext(s) \/ AppNext(s)

Spec == Init /\ [][Next]_vars

-----------------------------------------------------------------------------
(* Several sessions (browser tabs) against one store: Streamlit runs each    *)
(* session's script in its own thread, so runs interleave at their store     *)
(* reads and writes                                                          *)

\* the names and passwords the racing sessions type
RaceUsernames(rev) == IF rev = "json" THEN {<<"a">>, <<"b">>, ADMIN}
                      ELSE {<<"a">>, <<"b">>}
RacePasswords == {<<"p">>}

SheetsRaceNext(s) ==
    \/ \E u \in RaceUsernames(revision), p \in RacePasswords : SheetsLogin(s, u, p, "ok")
    \/ \E u \in RaceUsernames(revision), p \in RacePasswords : SignupCheck(s, u, p, "ok")
    \/ \E append_ok \in BOOLEAN, salt \in Salts : SignupAdd(s, append_ok, salt)

AppRaceNext(s) ==
    \/ RunStart(s)
    \/ \E u \in RaceUsernames(revision), p \in RacePasswords : RunLogin(s, u, p)
    \/ \E u \in RaceUsernames(revision), p \in RacePasswords, salt \in Salts : RunSignup(s, u, p, salt)
    \/ \E target \in RaceUsernames(revision) \cup {<<>>} : RunDelete(s, target)

NextRace == \E s \in Sessions : SheetsRaceNext(s) \/ AppRaceNext(s)

SpecRace == Init /\ [][NextRace]_vars

-----------------------------------------------------------------------------
(* Properties *)

\* what a login with (u, p) submitted now, the store being reachable, returns
LoginWouldSucceed(u, p) ==
    IF revision = "json" THEN verify_user(load_users(users_file), u, p)
    ELSE authenticate(get_users(users_cache, auth_sheet, "ok").value, u, p)

\* the account store holds a record for username u
HasRecord(u) ==
    IF revision = "json" THEN u \in DOMAIN users_file
    ELSE RowsOf(auth_sheet, u) # {}

\* the step is session s's signup handler (every handler records itself in last)
SignupStep(s) == last'[s].op = "signup" /\ last'[s].result # "checked"

StoreUnchanged == users_file' = users_file /\ auth_sheet' = auth_sheet

\* outcomes of a handler that the store's API failed: get_users raised, or
\* append_row raised APIError
StoreFailures == {"exception", "api_error"}

\* C1: a signup of (u, p) that reports success is followed by a login with
\* (u, p) that returns true (whenever the session's last handler is a
\* successful signup, a login with the same pair would be accepted)
C1_RegisterThenAuthenticate ==
    \A s \in Sessions :
        (last[s].op = "signup" /\ last[s].result = "created" /\ ~fetch_failed)
            => LoginWouldSucceed(last[s].user, last[s].pass)

\* C2: a signup (of a non-empty username and password, the store being
\* reachable) of a username that already has a record is answered "already
\* exists" and leaves the store as it was
C2_DuplicateSignupRejected ==
    [][\A s \in LiveSession :
          (SignupStep(s) /\ HasRecord(last'[s].user)
             /\ Truthy(last'[s].user) /\ Truthy(last'[s].pass)
             /\ last'[s].result \notin StoreFailures /\ ~fetch_failed')
              => (last'[s].result = "exists" /\ StoreUnchanged)]_vars

\* C3: with one session and no store failure the store holds at most one
\* record per username: as many rows as distinct usernames
C3_OneRecordPerUsername ==
    ~fetch_failed =>
        /\ \A i, j \in 1..Len(auth_sheet) :
               auth_sheet[i].username = auth_sheet[j].username => i = j
        /\ Len(auth_sheet) = Cardinality({auth_sheet[i].username : i \in 1..Len(auth_sheet)})

\* rows of list `userlist` that carry username u with a hash of password p
Matching(userlist, u, p) ==
    {i \in 1..Len(userlist) : userlist[i].username = u /\ userlist[i].password.pw = p}

\* after the step, the account list a login consults (users.json, or the list
\* get_users returns) holds a record of what session s submitted
SubmittedIsOnRecord(s) ==
    IF revision = "json"
    THEN /\ last'[s].user \in DOMAIN users_file'
         /\ users_file'[last'[s].user].pw = last'[s].pass
    ELSE /\ users_cache' # <<>>
         /\ Matching(users_cache'[1], last'[s].user, last'[s].pass) # {}

\* C4: a session starts logged out; it becomes logged in only in a login step
\* whose username and password match a record, and then carries that
\* username; a failed login and a logout leave it logged out; no other
\* handler logs a session in
C4_SessionFlag ==
    [][\A s \in Sessions :
          /\ (~logged_in[s] /\ logged_in'[s]) =>
                 /\ last'[s].op = "login" /\ last'[s].result = "ok"
                 /\ username'[s] = last'[s].user
                 /\ SubmittedIsOnRecord(s)
          /\ (last'[s].op = "login" /\ last'[s].result # "ok") => ~logged_in'[s]
          /\ last'[s].op \in {"logout", "reset", "signup", "none"} => ~logged_in'[s]
          /\ last'[s].op \notin {"login", "logout", "reset"} =>
                 logged_in'[s] = logged_in[s]]_vars

\* C4 witness: a session that a login step has logged in
C4_Witness ==
    \E s \in Sessions : logged_in[s] /\ last[s].op = "login" /\ username[s] = last[s].user

\* C5: once users.json holds an "admin" record, every step keeps it with its
\* hash, and a delete never names "admin"
C5_AdminNeverDeleted ==
    [][/\ ADMIN \in DOMAIN users_file =>
              (ADMIN \in DOMAIN users_file' /\ users_file'[ADMIN] = users_file[ADMIN])
       /\ \A s \in Sessions : last'[s].op = "delete" => last'[s].user # ADMIN]_vars

\* C5 witness: a delete has removed a user and the admin record is in place
C5_Witness ==
    /\ \E s \in Sessions : last[s].op = "delete" /\ last[s].result = "deleted"
    /\ ADMIN \in DOMAIN users_file
    /\ \E p \in PasswordInputs : verify_user(load_users(users_file), ADMIN, p)

\* sequence a is a prefix of sequence b
IsPrefix(a, b) == Len(a) <= Len(b) /\ SubSeq(b, 1, Len(a)) = a

\* the history sheet ends with the row of session s's selected file
UploadRecorded(s) ==
    /\ history_sheet # <<>>
    /\ history_sheet[Len(history_sheet)] =
           [username |-> username[s], filename |-> uploaded_file[s]]

\* C6: the upload history is append-only and gains one row per upload: once
\* the upload of the selected file is recorded, a rerun of the page with the
\* same file still selected appends nothing
C6_OneHistoryRowPerUpload ==
    [][/\ IsPrefix(history_sheet, history_sheet')
       /\ Len(history_sheet') <= Len(history_sheet) + 1
       /\ \A s \in LiveSession :
              (last'[s].op = "rerun" /\ UploadRecorded(s))
                  => history_sheet' = history_sheet]_vars

\* C9: a signup whose username or password is empty once stripped is rejected
\* (as empty input, or as an existing name, which app.py tests first) and
\* writes nothing
C9_BlankSignupRejected ==
    [][\A s \in LiveSession :
          (SignupStep(s) /\ last'[s].result \notin StoreFailures
             /\ (Strip(last'[s].user) = <<>> \/ Strip(last'[s].pass) = <<>>))
              => (last'[s].result \in {"empty", "exists"} /\ StoreUnchanged)]_vars

\* the step is a handler of session s whose read of the account table failed
ReadFailedStep(s) ==
    \/ fetch_failed' /\ ~fetch_failed
    \/ last'[s].result = "exception"

\* C10: a signup or login whose read of the account table fails does nothing:
\* no row is appended, the session is as before, and a store that holds
\* accounts is not remembered as holding none
C10_FailedReadDoesNothing ==
    [][\A s \in LiveSession :
          ReadFailedStep(s) =>
              /\ StoreUnchanged
              /\ logged_in' = logged_in /\ username' = username
              /\ auth_sheet # <<>> => users_cache' # << <<>> >>]_vars

\* session s's last handler is a signup of u that reported success
Created(s, u) ==
    last[s].op = "signup" /\ last[s].user = u /\ last[s].result = "created"

\* C7: two sessions sign up the same username, both pass find_user on a store
\* without it, and both add_user: the store then holds two rows of that
\* username (nothing between the check and the append refuses the second)
C7_RacingSignupsDuplicate ==
    \A s, t \in Sessions : \A u \in RaceUsernames(revision) :
        (revision = "sheets" /\ s # t /\ Created(s, u) /\ Created(t, u)
           /\ store_at_check[s] = 0 /\ store_at_check[t] = 0)
            => Cardinality(RowsOf(auth_sheet, u)) >= 2

\* C7 witness: both sessions passed the check while the store had no row of u,
\* both appended, and u has two rows
C7_Witness ==
    \E u \in RaceUsernames(revision) :
        /\ revision = "sheets"
        /\ Created(1, u) /\ Created(2, u)
        /\ store_at_check[1] = 0 /\ store_at_check[2] = 0
        /\ Cardinality(RowsOf(auth_sheet, u)) = 2

\* the step is the delete branch of a run of session s that saves
DeleteSaves(s) ==
    /\ pc[s] = "running" /\ pc'[s] = "idle"
    /\ last'[s].op = "delete" /\ last'[s].result = "deleted"

\* C8: save_users rewrites the whole table from the run's copy: a delete whose
\* run read users.json before another session's signup wrote it drops that
\* signup's record
C8_DeleteLosesRegistration ==
    [][\A s \in Sessions :
          DeleteSaves(s) =>
              \A u \in DOMAIN users_file \ DOMAIN users[s] : u \notin DOMAIN users_file']_vars

\* C8 witness: a signup reported success, no delete ever named its username,
\* a delete's rewrite dropped its record, and users.json holds no record of it
C8_Witness ==
    \E s \in Sessions : \E u \in RaceUsernames(revision) :
        /\ revision = "json"
        /\ Created(s, u)
        /\ u \in overwritten
        /\ u \notin deleted
        /\ u \notin DOMAIN users_file

-----------------------------------------------------------------------------
(* The privileged views a script run renders for a session state *)

\* app.py, lines 116-152: the else branch of `if not logged_in`, then
\* `if st.session_state.username == "admin"`: signup toggle, user list, delete
admin_panel(li, un) ==
    IF ~li THEN {}
    ELSE IF un = ADMIN THEN {"toggle_signup", "view_users", "delete_user"}
    ELSE {}

\* a run of main() that went on past the login page while logged out
upload_history_view_no_return(li, un) ==
    IF un = ADMIN_USERNAME THEN {"upload_history"} ELSE {}

\* Sheets revision, lines 225-246 and 315-321: the logged-out run returns
\* after the login page; otherwise `if username == ADMIN_USERNAME`
upload_history_view(li, un) ==
    IF ~li THEN {}
    ELSE IF un = ADMIN_USERNAME THEN {"upload_history"}
    ELSE {}

\* what the page of session s shows: the script run on its session state
PrivilegedViews(s) ==
    IF revision = "json" THEN admin_panel(logged_in[s], username[s])
    ELSE upload_history_view(logged_in[s], username[s])

IsAdminSession(s) == logged_in[s] /\ username[s] = AdminOf(revision)

\* C11: in every reachable state a session is shown a privileged view (user
\* list, user deletion, signup toggle; upload history), or has just used one
\* (toggle, delete), only if it is logged in and its session username is the
\* admin constant; a logged-out session and a session logged in under another
\* name are shown none, also after a logout that follows an admin login (the
\* Sheets logout keeps the session username).
C11_PrivilegedViewsAdminOnly ==
    \A s \in Sessions :
        /\ PrivilegedViews(s) # {} => IsAdminSession(s)
        /\ last[s].op \in {"toggle", "delete"} => IsAdminSession(s)
        /\ ~logged_in[s] => PrivilegedViews(s) = {}

\* an admin session that logged out with its username still in session state
C11_Witness ==
    \E s \in LiveSession :
        /\ revision = "sheets"
        /\ last[s].op = "logout"
        /\ ~logged_in[s]
        /\ username[s] = ADMIN_USERNAME
        /\ PrivilegedViews(s) = {}

\* C12: the signup operation never creates an account whose username is the
\* admin username ("admin" in app.py, ADMIN_USERNAME in the Sheets revision),
\* from any store state, one without an admin record included.
C12_SignupNeverCreatesAdmin ==
    [][\A s \in LiveSession :
          (SignupStep(s) /\ last'[s].user = AdminOf(revision))
              => (last'[s].result # "created" /\ StoreUnchanged)]_vars
=============================================================================
